---- MODULE Spec2Model ----
(***************************************************************************)
(* A model of phish_extractor.py (class PhishDataExtractor): the HTTP      *)
(* client wrapper with its retry loop, the show catalog fetcher, the       *)
(* enrichment loop, the setlist formatter / feature extractor and the      *)
(* tabular exporters.                                                      *)
(*                                                                         *)
(* Python strings that the code inspects character by character (song      *)
(* names, set labels, artist names, the formatted setlist) are sequences   *)
(* of one-character strings, so that strip, lower, split, replace and the  *)
(* regular expressions of clean_column_name are computed, not assumed.     *)
(* A dict is a function whose DOMAIN is the set of keys that are present.  *)
(* A JSON scalar whose Python truth value matters (the envelope's `error`) *)
(* is the text of its JSON token.                                          *)
(***************************************************************************)
EXTENDS Integers, Sequences, FiniteSets, TLC

VARIABLES
    api_key,            \* self.api_key is a non-empty string
    retry_count,        \* make_request's retry_count parameter
    json_error_is_request_exception,
                        \* the installed requests library raises
                        \* requests.exceptions.JSONDecodeError (a
                        \* RequestException) from response.json()
    rq_called,          \* a make_request call has returned
    rq_resps,           \* what the server answered to attempt 1, 2, ...
    rq_out,             \* that call's result and its log of gets and sleeps
    clean_name,         \* argument of clean_column_name
    clean_result,       \* its result
    clean_done,         \* clean_column_name has returned
    pc,                 \* position of main / extract_all_data
    start_year,
    end_year,
    year,               \* loop variable of get_all_shows
    all_shows,          \* get_all_shows' accumulator, then `shows`
    delivered,          \* the records the API returned in envelopes that
                        \* get_all_shows accepted, in request order
    idx,                \* number of raw shows the enrichment loop has taken
    setlists,           \* what get_show_setlist returned for show 1, 2, ...
    enriched_shows,
    all_songs,          \* self.all_songs
    batch_size,         \* self.batch_size
    trace,              \* make_request calls and batch pauses, in order
    failed_year,        \* the last year whose catalog request returned None
    wide_data,          \* rows built by save_to_csv_wide_format
    wide_done,
    ml_rows,            \* rows built by save_to_csv_ml_format
    ml_done,
    sl_pc,              \* position of a format / extract / parse sequence
    sl_data,            \* setlist_data, the argument of the formatter
    sl_tokens,          \* the sets and song tokens a setlist string is made of
    sl_string,          \* the formatted setlist, the argument of the parser
    sl_formatted,       \* sl_string is format_setlist_from_show's output
    sl_features,        \* extract_song_features_from_setlist's result
    sl_rows             \* parse_setlist_for_ml's result

vars == <<api_key, retry_count, json_error_is_request_exception,
          rq_called, rq_resps, rq_out,
          clean_name, clean_result, clean_done,
          pc, start_year, end_year, year, all_shows, delivered, idx,
          setlists, enriched_shows, all_songs, batch_size, trace, failed_year,
          wide_data, wide_done, ml_rows, ml_done,
          sl_pc, sl_data, sl_tokens, sl_string, sl_formatted, sl_features, sl_rows>>

reqVars == <<rq_called, rq_resps, rq_out>>
cleanVars == <<clean_name, clean_result, clean_done>>
pipeVars == <<pc, start_year, end_year, year, all_shows, delivered, idx,
              setlists, enriched_shows, all_songs, batch_size, trace,
              failed_year, wide_data, wide_done, ml_rows, ml_done>>
slVars == <<sl_pc, sl_data, sl_tokens, sl_string, sl_formatted, sl_features, sl_rows>>

----------------------------------------------------------------------------
(* Bounds of the model *)

MaxRetry == 3       \* retry_count ranges over 0..MaxRetry in SpecReq
MaxNameLen == 3     \* clean_column_name is applied to every name this long
MaxSpan == 5        \* start_year and end_year lie in FirstYear..FirstYear+MaxSpan
MaxDelivered == 2   \* records the API delivers over one get_all_shows call
MaxShows == 2       \* shows get_all_shows hands to the enrichment loop
MaxSongs == 3       \* setlist entries the API delivers over one extraction
MaxEntries == 2     \* entries of a setlist handed to the formatter
MaxTokens == 2      \* song tokens in the first set of a setlist string

----------------------------------------------------------------------------
(* Python str, as a sequence of characters *)

UpperChars == <<"A", "B", "C", "D", "E", "F", "G", "H", "I", "J", "K", "L", "M",
                "N", "O", "P", "Q", "R", "S", "T", "U", "V", "W", "X", "Y", "Z">>
LowerChars == <<"a", "b", "c", "d", "e", "f", "g", "h", "i", "j", "k", "l", "m",
                "n", "o", "p", "q", "r", "s", "t", "u", "v", "w", "x", "y", "z">>
DigitChars == <<"0", "1", "2", "3", "4", "5", "6", "7", "8", "9">>

Range(s) == {s[i] : i \in DOMAIN s}

Whitespace == {" ", "\t", "\n", "\r"}

\* str.lower(), one character
LowerChar(c) ==
    IF \E i \in DOMAIN UpperChars : UpperChars[i] = c
    THEN LowerChars[CHOOSE i \in DOMAIN UpperChars : UpperChars[i] = c]
    ELSE c

\* str.lower()
Lower(s) == [i \in DOMAIN s |-> LowerChar(s[i])]

\* s.strip(chars): the longest leading and trailing runs of `chars` removed
StripChars(s, chars) ==
    LET keep == {i \in DOMAIN s : s[i] \notin chars}
    IN IF keep = {} THEN <<>>
       ELSE LET lo == CHOOSE i \in keep : \A j \in keep : i <= j
                hi == CHOOSE i \in keep : \A j \in keep : j <= i
            IN SubSeq(s, lo, hi)

\* str.strip()
Strip(s) == StripChars(s, Whitespace)

\* Python truth value of a str
NonEmpty(s) == Len(s) > 0

\* dict.get(key, default)
Get(d, key, default) == IF key \in DOMAIN d THEN d[key] ELSE default

----------------------------------------------------------------------------
(* clean_column_name *)

\* the character class [a-zA-Z0-9_]
IsWordChar(c) ==
    c \in Range(UpperChars) \cup Range(LowerChars) \cup Range(DigitChars) \cup {"_"}

\* re.sub(r'[^a-zA-Z0-9_]', '_', name)
SubNonWord(s) == [i \in DOMAIN s |-> IF IsWordChar(s[i]) THEN s[i] ELSE "_"]

\* re.sub(r'_+', '_', cleaned): of every run of underscores the first is kept
CollapseUnderscores(s) ==
    SelectSeq([i \in DOMAIN s |->
                  IF s[i] = "_" /\ i > 1 /\ s[i - 1] = "_" THEN "" ELSE s[i]],
              LAMBDA c : c # "")

\* a plausible slip: the result is not lowercased
clean_column_name_nolower(name) ==
    StripChars(CollapseUnderscores(SubNonWord(name)), {"_"})

clean_column_name(name) ==
    Lower(StripChars(CollapseUnderscores(SubNonWord(name)), {"_"}))

----------------------------------------------------------------------------
(* make_request *)

default_retry_count == 3    \* def make_request(..., retry_count=3)
request_delay_ms == 500     \* self.request_delay = 0.5
rate_limit_step_ms == 5000  \* wait_time = 5 * (attempt + 1)
failure_step_ms == 2000     \* time.sleep(2 * (attempt + 1))

\* JSON tokens of the envelope's `error` field
JFalse == "false"
JNull == "null"
JEmptyString == "\"\""
JMessage == "\"Invalid API key\""
ErrorValues == {JFalse, JNull, JEmptyString, JMessage}

\* Python truth value of a JSON scalar: bool(x)
Truthy(tok) == tok \notin {JFalse, JNull, JEmptyString, "0"}
\* x == False
EqualsFalse(tok) == tok \in {JFalse, "0"}

\* the envelope {error: e, data: d}; either key may be absent
NoKey == "absent"
Envelope(e, hasData, d) ==
    [k \in (IF e = NoKey THEN {} ELSE {"error"}) \cup (IF hasData THEN {"data"} ELSE {})
        |-> IF k = "error" THEN e ELSE d]

\* What the server answers to one GET.  status 0: requests.get raised
\* (timeout, connection error) and there is no response; parses: whether
\* response.json() can decode the body; json: the decoded body.
NoResponse == 0
Response(status, parses, json) == [status |-> status, parses |-> parses, json |-> json]
FailureResponses == {Response(s, FALSE, <<>>) : s \in {NoResponse, 429, 500}}
MalformedResponse == Response(200, FALSE, <<>>)

\* return None / return data
None == [isNone |-> TRUE, json |-> <<>>]
Some(json) == [isNone |-> FALSE, json |-> json]

\* events of one call, in order
GetEv == [ev |-> "get", ms |-> 0]
SleepEv(ms) == [ev |-> "sleep", ms |-> ms]

\* a plausible slip: the error envelope is retried instead of returned
OnApiError_retry(attempt, log) == [retry |-> TRUE, log |-> log]

\* lines 71-73: the `error` check returns None
OnApiError(attempt, log) == [retry |-> FALSE, log |-> log]

\* a plausible slip: the inter-request delay is left out
Throttle_omitted(log) == log

\* line 66: time.sleep(self.request_delay), once the status checks passed
Throttle(log) == Append(log, SleepEv(request_delay_ms))

\* a plausible slip: `attempt < retry_count - 2` gives up one attempt early
LastAttempt_early(attempt, retry) == ~(attempt < retry - 2)

\* line 78: attempt < retry_count - 1 is false
LastAttempt(attempt, retry) == ~(attempt < retry - 1)

\* One attempt of the loop of lines 52-87 on response r: the events it adds
\* to the log, and whether the loop goes round again (continue) or the
\* function returns `result`.
OneAttempt(attempt, retry, r, jsonIsReqExc, log) ==
    LET log1 == Append(log, GetEv)
        \* except requests.exceptions.RequestException (lines 77-84)
        RequestException(lg) ==
            IF ~LastAttempt(attempt, retry)
            THEN [retry |-> TRUE, result |-> None,
                  log |-> Append(lg, SleepEv(failure_step_ms * (attempt + 1)))]
            ELSE [retry |-> FALSE, result |-> None, log |-> lg]
    IN IF r.status = NoResponse THEN RequestException(log1)
       ELSE IF r.status = 429
       THEN [retry |-> TRUE, result |-> None,
             log |-> Append(log1, SleepEv(rate_limit_step_ms * (attempt + 1)))]
       ELSE IF r.status >= 400 THEN RequestException(log1)     \* raise_for_status
       ELSE LET log2 == Throttle(log1)
            IN IF ~r.parses
               THEN \* response.json() raises: the first except clause that
                    \* matches the exception's class handles it
                    IF jsonIsReqExc THEN RequestException(log2)
                    ELSE [retry |-> FALSE, result |-> None, log |-> log2]
               ELSE IF Truthy(Get(r.json, "error", JNull))
                       /\ ~EqualsFalse(Get(r.json, "error", JNull))
               THEN LET e == OnApiError(attempt, log2)
                    IN [retry |-> e.retry, result |-> None, log |-> e.log]
               ELSE [retry |-> FALSE, result |-> Some(r.json), log |-> log2]

RECURSIVE AttemptLoop(_, _, _, _, _)
\* for attempt in range(retry_count): ... ; return None
AttemptLoop(attempt, retry, resps, jsonIsReqExc, log) ==
    IF attempt >= retry THEN [result |-> None, log |-> log]
    ELSE LET a == OneAttempt(attempt, retry, resps[attempt + 1], jsonIsReqExc, log)
         IN IF a.retry THEN AttemptLoop(attempt + 1, retry, resps, jsonIsReqExc, a.log)
            ELSE [result |-> a.result, log |-> a.log]

\* make_request(endpoint, params, retry_count) when the server answers
\* attempt i with resps[i]
make_request(key, retry, resps, jsonIsReqExc) ==
    IF ~key THEN [result |-> None, log |-> <<>>]
    ELSE AttemptLoop(0, retry, resps, jsonIsReqExc, <<>>)

NumGets(log) == Cardinality({i \in DOMAIN log : log[i].ev = "get"})
Sleeps(log) == SelectSeq(log, LAMBDA e : e.ev = "sleep")

----------------------------------------------------------------------------
(* More of Python str *)

\* sub in s (sub is not empty)
Contains(s, sub) ==
    \E i \in 1..(Len(s) - Len(sub) + 1) : SubSeq(s, i, i + Len(sub) - 1) = sub

RECURSIVE SplitFrom(_, _, _, _)
\* s.split(sep) for a one-character sep: `cur` is the piece being read
SplitFrom(s, sep, i, cur) ==
    IF i > Len(s) THEN <<cur>>
    ELSE IF s[i] = sep THEN <<cur>> \o SplitFrom(s, sep, i + 1, <<>>)
    ELSE SplitFrom(s, sep, i + 1, Append(cur, s[i]))

Split(s, sep) == SplitFrom(s, sep, 1, <<>>)

\* s.split(sep, 1) when sep occurs in s: what precedes the first sep, and the rest
SplitOnce(s, sep) ==
    LET i == CHOOSE k \in DOMAIN s : s[k] = sep /\ \A j \in 1..(k - 1) : s[j] # sep
    IN <<SubSeq(s, 1, i - 1), SubSeq(s, i + 1, Len(s))>>

RECURSIVE RemoveAll(_, _)
\* s.replace(sub, ''): the occurrences of sub, found left to right, removed
RemoveAll(s, sub) ==
    IF Len(s) < Len(sub) THEN s
    ELSE IF SubSeq(s, 1, Len(sub)) = sub
    THEN RemoveAll(SubSeq(s, Len(sub) + 1, Len(s)), sub)
    ELSE <<s[1]>> \o RemoveAll(SubSeq(s, 2, Len(s)), sub)

RECURSIVE Join(_, _)
\* sep.join(parts)
Join(parts, sep) ==
    IF Len(parts) = 0 THEN <<>>
    ELSE IF Len(parts) = 1 THEN parts[1]
    ELSE parts[1] \o sep \o Join(Tail(parts), sep)

----------------------------------------------------------------------------
(* format_setlist_from_show and extract_song_features_from_setlist *)

UnknownSong == <<"U", "n", "k", "n", "o", "w", "n", " ", "S", "o", "n", "g">>
UnknownSet == <<"U", "n", "k", "n", "o", "w", "n", " ", "S", "e", "t">>
missing_position_sentinel == 999    \* entry.get('position', 999)
default_position == 0               \* entry.get('position', 0)

\* the empty dict {}
EmptyDict == [k \in {} |-> 0]

\* bool(segue and segue.strip())
HasSegue(segue) == NonEmpty(segue) /\ NonEmpty(Strip(segue))

\* lines 289-301 for one entry: its set, and the (position, rendered name) pair
FormatEntry(entry) ==
    LET song_name == Get(entry, "song", UnknownSong)
        segue == Get(entry, "segue", <<>>)
    IN [set |-> Get(entry, "set", UnknownSet),
        position |-> Get(entry, "position", missing_position_sentinel),
        name |-> IF HasSegue(segue) THEN song_name \o <<" ">> \o segue \o <<" ">>
                 ELSE song_name]

RECURSIVE SetOrder(_, _)
\* the keys of `sets` in insertion order: each set label at its first entry
SetOrder(entries, seen) ==
    IF Len(entries) = 0 THEN <<>>
    ELSE IF entries[1].set \in seen THEN SetOrder(Tail(entries), seen)
    ELSE <<entries[1].set>> \o SetOrder(Tail(entries), seen \cup {entries[1].set})

RECURSIVE InsertByPosition(_, _)
InsertByPosition(sorted, e) ==
    IF Len(sorted) = 0 THEN <<e>>
    ELSE IF e.position < sorted[1].position THEN <<e>> \o sorted
    ELSE <<sorted[1]>> \o InsertByPosition(Tail(sorted), e)

RECURSIVE SortByPosition(_)
\* songs.sort(key=lambda x: x[0]): stable, ascending
SortByPosition(songs) ==
    IF Len(songs) = 0 THEN <<>>
    ELSE InsertByPosition(SortByPosition(SubSeq(songs, 1, Len(songs) - 1)),
                          songs[Len(songs)])

format_setlist_from_show(setlist_data) ==
    IF Len(setlist_data) = 0 THEN <<>>
    ELSE LET entries == [i \in DOMAIN setlist_data |-> FormatEntry(setlist_data[i])]
             order == SetOrder(entries, {})
             FormatSet(set_name) ==
                 LET songs == SortByPosition(SelectSeq(entries, LAMBDA e : e.set = set_name))
                     song_names == [i \in DOMAIN songs |-> songs[i].name]
                 IN set_name \o <<":", " ">> \o Join(song_names, <<",", " ">>)
         IN Join([i \in DOMAIN order |-> FormatSet(order[i])], <<" ", "|", " ">>)

\* lines 189 and 195: the entry's song name, stripped
FeatureSongName(entry) == Strip(Get(entry, "song", UnknownSong))

\* line 196: the entry counts as a song
IsSong(song_name) == NonEmpty(song_name) /\ song_name # UnknownSong

\* a plausible slip: the global set is replaced instead of extended
AddSongs_replace(songs, names) == names

\* line 198 over a whole setlist: self.all_songs.add(song_name)
AddSongs(songs, names) == songs \cup names

\* the entries of a setlist that line 196 keeps, in order
SongEntries(setlist_data) ==
    SelectSeq(setlist_data, LAMBDA e : IsSong(FeatureSongName(e)))

\* the feature bag of lines 176-207
extract_song_features_from_setlist(setlist_data) ==
    LET kept == SongEntries(setlist_data)
        names == {FeatureSongName(kept[i]) : i \in DOMAIN kept}
        LastOf(s) == CHOOSE i \in DOMAIN kept :
                        /\ FeatureSongName(kept[i]) = s
                        /\ \A j \in DOMAIN kept : FeatureSongName(kept[j]) = s => j <= i
        set_names == {Get(kept[i], "set", UnknownSet) : i \in DOMAIN kept}
        InSet(sn) == SelectSeq(kept, LAMBDA e : Get(e, "set", UnknownSet) = sn)
    IN [songs_played |-> [i \in DOMAIN kept |-> FeatureSongName(kept[i])],
        set_positions |-> [s \in names |-> Get(kept[LastOf(s)], "position", default_position)],
        song_counts |-> [s \in names |->
                            Cardinality({i \in DOMAIN kept : FeatureSongName(kept[i]) = s})],
        has_segues |-> [s \in names |-> HasSegue(Get(kept[LastOf(s)], "segue", <<>>))],
        set_info |-> [sn \in set_names |->
                         [i \in DOMAIN InSet(sn) |-> FeatureSongName(InSet(sn)[i])]]]

\* the names extract_song_features_from_setlist adds to self.all_songs
SongsOf(setlist_data) ==
    {FeatureSongName(SongEntries(setlist_data)[i]) : i \in DOMAIN SongEntries(setlist_data)}

----------------------------------------------------------------------------
(* parse_setlist_for_ml *)

\* lines 540-564 for one comma-separated piece at 1-based `position`
ParseSong(set_name, position, piece) ==
    LET raw_song == Strip(piece)
        parsed ==
            IF Contains(raw_song, <<">">>)
            THEN [has_segue |-> TRUE, segue_info |-> <<">">>,
                  song_name |-> Strip(RemoveAll(raw_song, <<">">>))]
            ELSE IF Contains(raw_song, <<"-", ">">>)
            THEN [has_segue |-> TRUE, segue_info |-> <<"-", ">">>,
                  song_name |-> Strip(RemoveAll(raw_song, <<"-", ">">>))]
            ELSE [has_segue |-> FALSE, segue_info |-> <<>>, song_name |-> raw_song]
    IN IF NonEmpty(parsed.song_name)
       THEN <<[set_name |-> set_name, song_position |-> position,
               song_name |-> parsed.song_name, has_segue |-> parsed.has_segue,
               segue_info |-> parsed.segue_info]>>
       ELSE <<>>

RECURSIVE Concat(_)
Concat(seqs) == IF Len(seqs) = 0 THEN <<>> ELSE seqs[1] \o Concat(Tail(seqs))

\* lines 531-564 for one '|'-separated piece
ParseSet(piece) ==
    LET set_info == Strip(piece)
    IN IF ":" \in Range(set_info)
       THEN LET parts == SplitOnce(set_info, ":")
                set_name == Strip(parts[1])
                raw_songs == Split(parts[2], ",")
            IN Concat([i \in DOMAIN raw_songs |-> ParseSong(set_name, i, raw_songs[i])])
       ELSE <<>>

parse_setlist_for_ml(setlist_string) ==
    IF ~NonEmpty(setlist_string) THEN <<>>
    ELSE LET sets == Split(setlist_string, "|")
         IN Concat([i \in DOMAIN sets |-> ParseSet(sets[i])])

----------------------------------------------------------------------------
(* Values of the variables a specification does not use *)

ReqIdle ==
    /\ rq_called = FALSE
    /\ rq_resps = <<>>
    /\ rq_out = [result |-> None, log |-> <<>>]

CleanIdle ==
    /\ clean_name = <<>>
    /\ clean_result = <<>>
    /\ clean_done = FALSE

PipeIdle ==
    /\ pc = "idle"
    /\ start_year = 0
    /\ end_year = 0
    /\ year = 0
    /\ all_shows = <<>>
    /\ delivered = <<>>
    /\ idx = 0
    /\ setlists = <<>>
    /\ enriched_shows = <<>>
    /\ all_songs = {}
    /\ batch_size = 50
    /\ trace = <<>>
    /\ failed_year = 0
    /\ wide_data = <<>>
    /\ wide_done = FALSE
    /\ ml_rows = <<>>
    /\ ml_done = FALSE

SlIdle ==
    /\ sl_pc = "idle"
    /\ sl_data = <<>>
    /\ sl_tokens = <<>>
    /\ sl_string = <<>>
    /\ sl_formatted = FALSE
    /\ sl_features = EmptyDict
    /\ sl_rows = <<>>

----------------------------------------------------------------------------
(* SpecReq: one extractor, calls of make_request *)

\* bodies of a 2xx answer: every combination of the envelope's two keys
ProbeBodies ==
    {Envelope(e, d, <<>>) : e \in ErrorValues \cup {NoKey}, d \in BOOLEAN}

ProbeResponses ==
    FailureResponses \cup {MalformedResponse}
        \cup {Response(200, TRUE, b) : b \in ProbeBodies}

InitReq ==
    /\ api_key \in BOOLEAN
    /\ retry_count \in 0..MaxRetry
    /\ json_error_is_request_exception \in BOOLEAN
    /\ ReqIdle
    /\ CleanIdle
    /\ PipeIdle
    /\ SlIdle

\* a call of make_request; the server's answers are any of ProbeResponses
CallMakeRequest ==
    /\ ~rq_called
    /\ \E resps \in [1..retry_count -> ProbeResponses] :
          /\ rq_resps' = resps
          /\ rq_out' = make_request(api_key, retry_count, resps,
                                    json_error_is_request_exception)
    /\ rq_called' = TRUE
    /\ UNCHANGED <<api_key, retry_count, json_error_is_request_exception>>
    /\ UNCHANGED cleanVars
    /\ UNCHANGED pipeVars
    /\ UNCHANGED slVars

NextReq == CallMakeRequest

SpecReq == InitReq /\ [][NextReq]_vars

----------------------------------------------------------------------------
(* SpecClean: clean_column_name applied to a name *)

RunLikeAnAntelope == <<"R", "u", "n", " ", "L", "i", "k", "e", " ", "a", "n", " ",
                       "A", "n", "t", "e", "l", "o", "p", "e">>
MikesSong == <<"M", "i", "k", "e", "'", "s", " ", "S", "o", "n", "g">>
DividedSky == <<"D", "i", "v", "i", "d", "e", "d", " ", "S", "k", "y">>

CleanAlphabet == {"A", "b", "'", " ", "_", "1"}
CleanInputs ==
    UNION {[1..n -> CleanAlphabet] : n \in 0..MaxNameLen}
        \cup {RunLikeAnAntelope, MikesSong, DividedSky}

InitClean ==
    /\ clean_name \in CleanInputs
    /\ clean_result = <<>>
    /\ clean_done = FALSE
    /\ api_key = TRUE
    /\ retry_count = default_retry_count
    /\ json_error_is_request_exception = FALSE
    /\ ReqIdle
    /\ PipeIdle
    /\ SlIdle

CallCleanColumnName ==
    /\ ~clean_done
    /\ clean_result' = clean_column_name(clean_name)
    /\ clean_done' = TRUE
    /\ UNCHANGED <<clean_name, api_key, retry_count, json_error_is_request_exception>>
    /\ UNCHANGED reqVars
    /\ UNCHANGED pipeVars
    /\ UNCHANGED slVars

NextClean == CallCleanColumnName

SpecClean == InitClean /\ [][NextClean]_vars

----------------------------------------------------------------------------
(* SpecShows: get_all_shows over a year range *)

FirstYear == 1983       \* start_year = 1983
year_batch_size == 5    \* year_batch_size = 5
Years == FirstYear..(FirstYear + MaxSpan)

PhishName == <<"p", "h", "i", "s", "h">>
MixedCasePhish == <<"P", "h", "i", "s", "h">>
ArtistNames == {MixedCasePhish, <<"P", "h", "i", "s">>}

\* a plausible slip: a prefix match instead of equality
IsPhish_prefix(show) ==
    LET a == Lower(Get(show, "artist_name", <<>>))
    IN Len(a) >= 4 /\ SubSeq(a, 1, 4) = SubSeq(PhishName, 1, 4)

\* show.get('artist_name', '').lower() == 'phish'
IsPhish(show) == Lower(Get(show, "artist_name", <<>>)) = PhishName

\* a record of the catalog: its date (here the year) and, unless the key is
\* absent, its artist
RawShow(date, hasArtist, artist) ==
    [k \in {"showdate"} \cup (IF hasArtist THEN {"artist_name"} ELSE {})
        |-> IF k = "showdate" THEN date ELSE artist]
RawShows(y) ==
    {RawShow(y, TRUE, a) : a \in ArtistNames} \cup {RawShow(y, FALSE, <<>>)}

SeqsUpTo(S, n) == UNION {[1..k -> S] : k \in 0..n}

\* the answers make_request can consume: every answer but the last is one
\* the loop may go round on, and a shorter sequence ends in an answer it
\* returns on
RetryableResponses == FailureResponses \cup {MalformedResponse}
Scripts(final, retry) ==
    UNION {{p \o <<f>> : p \in [1..(n - 1) -> RetryableResponses],
                        f \in IF n < retry THEN final \ RetryableResponses
                                           ELSE final \cup RetryableResponses}
           : n \in 1..retry}

\* what make_request can return when a 2xx answer carries one of `bodies`
Results(key, jsonIsReqExc, bodies) ==
    {make_request(key, default_retry_count, s, jsonIsReqExc).result :
        s \in Scripts({Response(200, TRUE, b) : b \in bodies}, default_retry_count)}

CatalogBodies(y) ==
    {Envelope(e, FALSE, <<>>) : e \in ErrorValues \cup {NoKey}}
        \cup {Envelope(e, TRUE, d) : e \in ErrorValues \cup {NoKey},
                                    d \in SeqsUpTo(RawShows(y), MaxDelivered)}

CatalogResults ==
    [key \in BOOLEAN, v \in BOOLEAN, y \in Years |-> Results(key, v, CatalogBodies(y))]

\* line 119: response and 'data' in response and response.get('error') == False
Accepted(response) ==
    /\ ~response.isNone
    /\ DOMAIN response.json # {}
    /\ "data" \in DOMAIN response.json
    /\ EqualsFalse(Get(response.json, "error", JNull))

\* lines 119-121: the records the year contributes before the filter
YearShows(response) == IF Accepted(response) THEN response.json["data"] ELSE <<>>

\* line 123
FilterPhish(year_shows) == SelectSeq(year_shows, IsPhish)

\* what one pass of the loop can see: whether make_request returned None,
\* and the records of line 120
CatalogOutcomes ==
    [key \in BOOLEAN, v \in BOOLEAN, y \in Years |->
        {[isNone |-> r.isNone, year_shows |-> YearShows(r)] : r \in CatalogResults[key, v, y]}]

\* a plausible slip: a failed year ends the fetch
AfterYear_abort(y, response) == IF response.isNone THEN end_year + 1 ELSE y + 1

\* the loops of lines 106 and 111 go on to the next year whatever happened
AfterYear(y, response) == y + 1

\* year_end of the chunk that holds year y (line 107)
YearEnd(y) ==
    LET year_start == start_year + year_batch_size * ((y - start_year) \div year_batch_size)
        last == year_start + year_batch_size - 1
    IN IF last < end_year THEN last ELSE end_year

\* a plausible slip: the pause is taken after the last chunk too
PauseAfterChunk_always(year_end) == TRUE

\* line 134: if year_end < end_year
PauseAfterChunk(year_end) == year_end < end_year

CatalogEv(y) == [ev |-> "catalog", key |-> y]
BatchSleepEv == [ev |-> "batch_sleep", key |-> 0]

InitShows ==
    /\ api_key \in BOOLEAN
    /\ retry_count = default_retry_count
    /\ json_error_is_request_exception \in BOOLEAN
    /\ ReqIdle
    /\ CleanIdle
    /\ SlIdle
    /\ pc = "years"
    /\ start_year \in Years
    /\ end_year \in Years
    /\ year = start_year
    /\ all_shows = <<>>
    /\ delivered = <<>>
    /\ idx = 0
    /\ setlists = <<>>
    /\ enriched_shows = <<>>
    /\ all_songs = {}
    /\ batch_size = 50
    /\ trace = <<>>
    /\ failed_year = 0
    /\ wide_data = <<>>
    /\ wide_done = FALSE
    /\ ml_rows = <<>>
    /\ ml_done = FALSE

\* one pass of the inner loop of get_all_shows (lines 111-131), and the
\* pause of lines 134-136 when it was the chunk's last year
FetchYear ==
    /\ pc = "years"
    /\ year <= end_year
    /\ \E response \in CatalogOutcomes[api_key, json_error_is_request_exception, year] :
          LET year_shows == response.year_shows
          IN /\ Len(delivered) + Len(year_shows) <= MaxDelivered
             /\ delivered' = delivered \o year_shows
             /\ all_shows' = all_shows \o FilterPhish(year_shows)
             /\ failed_year' = IF response.isNone THEN year ELSE failed_year
             /\ year' = AfterYear(year, response)
    /\ trace' = trace \o <<CatalogEv(year)>>
                  \o (IF year = YearEnd(year) /\ PauseAfterChunk(YearEnd(year))
                      THEN <<BatchSleepEv>> ELSE <<>>)
    /\ UNCHANGED <<api_key, retry_count, json_error_is_request_exception,
                   pc, start_year, end_year, idx, setlists, enriched_shows,
                   all_songs, batch_size, wide_data, wide_done, ml_rows, ml_done>>
    /\ UNCHANGED reqVars
    /\ UNCHANGED cleanVars
    /\ UNCHANGED slVars

\* lines 138-139: return all_shows
ReturnShows ==
    /\ pc = "years"
    /\ year > end_year
    /\ pc' = "returned"
    /\ UNCHANGED <<api_key, retry_count, json_error_is_request_exception,
                   start_year, end_year, year, all_shows, delivered, idx, setlists,
                   enriched_shows, all_songs, batch_size, trace, failed_year,
                   wide_data, wide_done, ml_rows, ml_done>>
    /\ UNCHANGED reqVars
    /\ UNCHANGED cleanVars
    /\ UNCHANGED slVars

NextShows == FetchYear \/ ReturnShows

SpecShows == InitShows /\ [][NextShows]_vars

----------------------------------------------------------------------------
(* Spec: extract_all_data from the return of get_all_shows, then the wide  *)
(* and the long export of main                                             *)

batch_size_default == 50    \* self.batch_size = 50
BatchSizes == {batch_size_default}

\* what get_all_shows can return: records that passed its artist filter
PhishShows ==
    {s \in {RawShow(FirstYear, TRUE, a) : a \in {PhishName, MixedCasePhish}} : IsPhish(s)}

\* entries of a setlist answer
SongNameA == <<"A">>
SongNames == {SongNameA, <<" ", "a">>, <<>>}
Entry(hasSong, song) ==
    [k \in {"set", "position"} \cup (IF hasSong THEN {"song"} ELSE {})
        |-> IF k = "set" THEN <<"1">> ELSE IF k = "position" THEN 1 ELSE song]
Entries == {Entry(TRUE, s) : s \in SongNames}

SetlistBodies ==
    {Envelope(e, FALSE, <<>>) : e \in ErrorValues \cup {NoKey}}
        \cup {Envelope(e, TRUE, d) : e \in ErrorValues \cup {NoKey},
                                    d \in SeqsUpTo(Entries, MaxSongs)}

SetlistResults == [v \in BOOLEAN |-> Results(TRUE, v, SetlistBodies)]

\* get_show_setlist's return value, given make_request's: the data or None
NoSetlist == [isNone |-> TRUE, data |-> <<>>]
get_show_setlist(response) ==
    IF Accepted(response) THEN [isNone |-> FALSE, data |-> response.json["data"]]
    ELSE NoSetlist

\* what get_show_setlist can return
SetlistOutcomes == [v \in BOOLEAN |-> {get_show_setlist(r) : r \in SetlistResults[v]}]

SetlistEv(date) == [ev |-> "setlist", key |-> date]

\* a plausible slip: a show without setlist data is left out
KeepShow_needs_setlist(show, detailed_setlist) ==
    IsPhish(show) /\ ~detailed_setlist.isNone /\ Len(detailed_setlist.data) > 0

\* lines 235-237 and 268: the show is appended unless the artist re-check fails
KeepShow(show, detailed_setlist) == IsPhish(show)

\* lines 241-266: the enriched show
EnrichedShow(show, detailed_setlist) ==
    LET has == ~detailed_setlist.isNone /\ Len(detailed_setlist.data) > 0
    IN [date |-> Get(show, "showdate", 0),
        artist_name |-> Get(show, "artist_name", <<>>),
        setlist |-> IF has THEN format_setlist_from_show(detailed_setlist.data) ELSE <<>>,
        song_features |-> IF has THEN extract_song_features_from_setlist(detailed_setlist.data)
                          ELSE EmptyDict]

\* batch_end of the batch that holds the show at 0-based index i (line 222)
BatchEnd(i) ==
    LET batch_start == batch_size * (i \div batch_size)
    IN IF batch_start + batch_size < Len(all_shows) THEN batch_start + batch_size
       ELSE Len(all_shows)

\* line 271: if batch_end < total_shows
PauseAfterBatch(batch_end) == batch_end < Len(all_shows)

\* extract_all_data when get_all_shows has returned and self.batch_size is
\* one of `sizes`
InitEnrich(sizes) ==
    /\ api_key = TRUE
    /\ retry_count = default_retry_count
    /\ json_error_is_request_exception \in BOOLEAN
    /\ ReqIdle
    /\ CleanIdle
    /\ SlIdle
    /\ start_year = FirstYear
    /\ end_year = FirstYear
    /\ year = end_year + 1
    /\ all_shows \in SeqsUpTo(PhishShows, MaxShows)
    /\ delivered = all_shows
    /\ pc = IF Len(all_shows) = 0 THEN "extracted" ELSE "enrich"
    /\ idx = 0
    /\ setlists = <<>>
    /\ enriched_shows = <<>>
    /\ all_songs = {}
    /\ batch_size \in sizes
    /\ trace = <<>>
    /\ failed_year = 0
    /\ wide_data = <<>>
    /\ wide_done = FALSE
    /\ ml_rows = <<>>
    /\ ml_done = FALSE

Init == InitEnrich(BatchSizes)

\* the songs delivered so far
SongsDelivered ==
    LET n == [i \in DOMAIN setlists |-> Len(setlists[i].data)]
        sum[i \in 0..Len(setlists)] == IF i = 0 THEN 0 ELSE sum[i - 1] + n[i]
    IN sum[Len(setlists)]

\* one pass of the inner loop of extract_all_data (lines 228-268), and the
\* pause of lines 271-273 when it was the batch's last show
EnrichShow ==
    /\ pc = "enrich"
    /\ idx < Len(all_shows)
    /\ LET show == all_shows[idx + 1]
           show_date == Get(show, "showdate", 0)
       IN IF ~IsPhish(show)
          THEN /\ UNCHANGED <<setlists, enriched_shows, all_songs>>
               /\ trace' = trace \o (IF idx + 1 = BatchEnd(idx) /\ PauseAfterBatch(BatchEnd(idx))
                                     THEN <<BatchSleepEv>> ELSE <<>>)
          ELSE \E detailed_setlist \in SetlistOutcomes[json_error_is_request_exception] :
                  LET has == ~detailed_setlist.isNone /\ Len(detailed_setlist.data) > 0
                  IN /\ SongsDelivered + Len(detailed_setlist.data) <= MaxSongs
                     /\ setlists' = Append(setlists, detailed_setlist)
                     /\ enriched_shows' =
                           IF KeepShow(show, detailed_setlist)
                           THEN Append(enriched_shows, EnrichedShow(show, detailed_setlist))
                           ELSE enriched_shows
                     /\ all_songs' = IF has THEN AddSongs(all_songs, SongsOf(detailed_setlist.data))
                                     ELSE all_songs
                     /\ trace' = trace \o <<SetlistEv(show_date)>>
                                   \o (IF idx + 1 = BatchEnd(idx)
                                          /\ PauseAfterBatch(BatchEnd(idx))
                                       THEN <<BatchSleepEv>> ELSE <<>>)
    /\ idx' = idx + 1
    /\ pc' = IF idx + 1 = Len(all_shows) THEN "extracted" ELSE "enrich"
    /\ UNCHANGED <<api_key, retry_count, json_error_is_request_exception,
                   start_year, end_year, year, all_shows, delivered, batch_size,
                   failed_year, wide_data, wide_done, ml_rows, ml_done>>
    /\ UNCHANGED reqVars
    /\ UNCHANGED cleanVars
    /\ UNCHANGED slVars

----------------------------------------------------------------------------
(* save_to_csv_wide_format: the song columns of each row *)

SongPrefix == <<"s", "o", "n", "g", "_">>
CountSuffix == <<"_", "c", "o", "u", "n", "t">>
SongColumn(song) == SongPrefix \o clean_column_name(song)
CountColumn(song) == SongColumn(song) \o CountSuffix

\* wide_row[key] = value
Put(row, key, value) ==
    [k \in DOMAIN row \cup {key} |-> IF k = key THEN value ELSE row[k]]

RECURSIVE SongColumns(_, _, _, _)
\* lines 405-412: for song in self.all_songs, in the order `order`
SongColumns(row, order, songs_played, song_counts) ==
    IF Len(order) = 0 THEN row
    ELSE LET song == order[1]
             row1 == Put(row, SongColumn(song),
                         IF song \in Range(songs_played) THEN 1 ELSE 0)
             row2 == IF song \in DOMAIN song_counts /\ song_counts[song] > 1
                     THEN Put(row1, CountColumn(song), song_counts[song])
                     ELSE row1
         IN SongColumns(row2, Tail(order), songs_played, song_counts)

WideRow(show, order) ==
    LET song_features == show.song_features
    IN SongColumns(EmptyDict, order,
                   Get(song_features, "songs_played", <<>>),
                   Get(song_features, "song_counts", EmptyDict))

\* the orders in which a set can be iterated
Orders(S) ==
    {o \in [1..Cardinality(S) -> S] : \A i, j \in DOMAIN o : o[i] = o[j] => i = j}

\* main calls save_to_csv_wide_format(show_data) when show_data is not empty
SaveWide ==
    /\ pc = "extracted"
    /\ Len(enriched_shows) > 0
    /\ \E order \in Orders(all_songs) :
          wide_data' = [i \in DOMAIN enriched_shows |-> WideRow(enriched_shows[i], order)]
    /\ wide_done' = TRUE
    /\ pc' = "wide_saved"
    /\ UNCHANGED <<api_key, retry_count, json_error_is_request_exception,
                   start_year, end_year, year, all_shows, delivered, idx, setlists,
                   enriched_shows, all_songs, batch_size, trace, failed_year,
                   ml_rows, ml_done>>
    /\ UNCHANGED reqVars
    /\ UNCHANGED cleanVars
    /\ UNCHANGED slVars

----------------------------------------------------------------------------
(* save_to_csv_ml_format: the rows, each with the index of its show *)

BlankRow ==
    [set_name |-> <<>>, song_position |-> 0, song_name |-> <<>>,
     has_segue |-> FALSE, segue_info |-> <<>>]

\* lines 487-504 for one show
MlRowsOf(show) ==
    IF NonEmpty(show.setlist) THEN parse_setlist_for_ml(show.setlist)
    ELSE <<BlankRow>>

\* the row of lines 491-493, with `show` the position of its show in data
MlRow(i, song_data) ==
    [show |-> i, date |-> enriched_shows[i].date,
     set_name |-> song_data.set_name, song_position |-> song_data.song_position,
     song_name |-> song_data.song_name, has_segue |-> song_data.has_segue,
     segue_info |-> song_data.segue_info]

\* main calls save_to_csv_ml_format(show_data) after the wide export
SaveMl ==
    /\ pc = "wide_saved"
    /\ ml_rows' = Concat([i \in DOMAIN enriched_shows |->
                            [j \in DOMAIN MlRowsOf(enriched_shows[i]) |->
                                MlRow(i, MlRowsOf(enriched_shows[i])[j])]])
    /\ ml_done' = TRUE
    /\ pc' = "done"
    /\ UNCHANGED <<api_key, retry_count, json_error_is_request_exception,
                   start_year, end_year, year, all_shows, delivered, idx, setlists,
                   enriched_shows, all_songs, batch_size, trace, failed_year,
                   wide_data, wide_done>>
    /\ UNCHANGED reqVars
    /\ UNCHANGED cleanVars
    /\ UNCHANGED slVars

Next == EnrichShow \/ SaveWide \/ SaveMl

Spec == Init /\ [][Next]_vars

----------------------------------------------------------------------------
(* SpecPacing: the two paced loops, get_all_shows over a year range and    *)
(* the enrichment loop of extract_all_data with a small self.batch_size    *)

PacedBatchSizes == {1, 2}

InitPacing == InitShows \/ InitEnrich(PacedBatchSizes)

NextPacing == FetchYear \/ ReturnShows \/ EnrichShow

SpecPacing == InitPacing /\ [][NextPacing]_vars

----------------------------------------------------------------------------
(* SpecSetlist: the formatter, the feature extractor and the long-format   *)
(* parser applied to one setlist                                           *)

Tweezer == <<"T", "w", "e", "e", "z", "e", "r">>
SetOne == <<"S", "e", "t", " ", "1">>
Encore == <<"E", "n", "c", "o", "r", "e">>
SetLabels == {SetOne, Encore}
SegueGt == <<">">>
SegueArrow == <<"-", ">">>
SegueMarks == {<<>>, SegueGt, SegueArrow}

\* an entry {set, song, position, segue} of a setlist answer; `song` may be
\* absent
SetlistEntry(set, hasSong, song, segue, position) ==
    [k \in {"set", "segue", "position"} \cup (IF hasSong THEN {"song"} ELSE {})
        |-> IF k = "set" THEN set
            ELSE IF k = "segue" THEN segue
            ELSE IF k = "position" THEN position
            ELSE song]

SetlistEntries ==
    {SetlistEntry(st, TRUE, sg, sv, p) :
        st \in SetLabels, sg \in {Tweezer, MikesSong}, sv \in SegueMarks, p \in 1..2}
    \cup {SetlistEntry(st, FALSE, <<>>, <<>>, 1) : st \in SetLabels}

StructuredSetlists == SeqsUpTo(SetlistEntries, MaxEntries)

\* a song token of a formatted setlist: the name, then the marker if any
Token(song, mark) == IF mark = <<>> THEN song ELSE song \o <<" ">> \o mark
Tokens == {Token(sg, m) : sg \in {Tweezer, MikesSong}, m \in SegueMarks}

\* a setlist string as the parser reads it: sets joined by " | ", each a
\* label, ": " and its tokens joined by ", "
TokenSet(label, tokens) == [label |-> label, tokens |-> tokens]
RenderSet(s) == s.label \o <<":", " ">> \o Join(s.tokens, <<",", " ">>)
RenderSetlist(sets) ==
    Join([i \in DOMAIN sets |-> RenderSet(sets[i])], <<" ", "|", " ">>)

TokenSetlists ==
    LET first == {TokenSet(SetOne, ts) : ts \in SeqsUpTo(Tokens, MaxTokens) \ {<<>>}}
        encore == {TokenSet(Encore, <<t>>) : t \in Tokens}
    IN {<<f>> : f \in first} \cup {<<f, e>> : f \in first, e \in encore}

InitSetlist ==
    /\ api_key = TRUE
    /\ retry_count = default_retry_count
    /\ json_error_is_request_exception = FALSE
    /\ ReqIdle
    /\ CleanIdle
    /\ PipeIdle
    /\ sl_features = EmptyDict
    /\ sl_rows = <<>>
    /\ sl_formatted = FALSE
    /\ \/ /\ sl_pc = "format"
          /\ sl_data \in StructuredSetlists
          /\ sl_tokens = <<>>
          /\ sl_string = <<>>
       \/ /\ sl_pc = "parse"
          /\ sl_data = <<>>
          /\ sl_tokens \in TokenSetlists
          /\ sl_string = RenderSetlist(sl_tokens)

\* lines 245-246: the setlist is formatted and its features are extracted
FormatSetlist ==
    /\ sl_pc = "format"
    /\ sl_string' = format_setlist_from_show(sl_data)
    /\ sl_features' = extract_song_features_from_setlist(sl_data)
    /\ sl_formatted' = TRUE
    /\ sl_pc' = "parse"
    /\ UNCHANGED <<sl_data, sl_tokens, sl_rows>>
    /\ UNCHANGED <<api_key, retry_count, json_error_is_request_exception>>
    /\ UNCHANGED reqVars
    /\ UNCHANGED cleanVars
    /\ UNCHANGED pipeVars

\* line 489: the setlist string is parsed into song records
ParseSetlist ==
    /\ sl_pc = "parse"
    /\ sl_rows' = parse_setlist_for_ml(sl_string)
    /\ sl_pc' = "done"
    /\ UNCHANGED <<sl_data, sl_tokens, sl_string, sl_formatted, sl_features>>
    /\ UNCHANGED <<api_key, retry_count, json_error_is_request_exception>>
    /\ UNCHANGED reqVars
    /\ UNCHANGED cleanVars
    /\ UNCHANGED pipeVars

NextSetlist == FormatSetlist \/ ParseSetlist

SpecSetlist == InitSetlist /\ [][NextSetlist]_vars

----------------------------------------------------------------------------
(* Claims about make_request, under SpecReq *)

\* a request-level failure: HTTP 429, no response (timeout, connection
\* error), or another non-2xx status
IsRequestFailure(r) == r.status = NoResponse \/ r.status >= 400

\* a 2xx answer whose body decodes to an envelope with `error` present and
\* not false
ErrorPresentNotFalse(r) ==
    /\ r.status = 200
    /\ r.parses
    /\ "error" \in DOMAIN r.json
    /\ r.json["error"] # JFalse

\* a 2xx answer whose body decodes to an envelope with a truthy `error`
ErrorTruthy(r) == ErrorPresentNotFalse(r) /\ Truthy(r.json["error"])

\* attempts 1..k-1 were request-level failures, so attempt k is made
Reaches(k) ==
    /\ rq_called /\ api_key
    /\ k \in 1..retry_count
    /\ \A j \in 1..(k - 1) : IsRequestFailure(rq_resps[j])

\* C1: with an API key, when every attempt ends in HTTP 429 or another
\* request-level failure, make_request issues exactly retry_count GETs and
\* returns None.
C1_RetryCeiling ==
    (rq_called /\ api_key /\ \A i \in 1..retry_count : IsRequestFailure(rq_resps[i]))
        => /\ rq_out.result = None
           /\ NumGets(rq_out.log) = retry_count

\* C1 witness: three attempts failed, one of them by 429 and one otherwise
C1_Witness ==
    /\ rq_called /\ api_key /\ retry_count = 3
    /\ \A i \in 1..retry_count : IsRequestFailure(rq_resps[i])
    /\ \E i, j \in 1..retry_count : rq_resps[i].status = 429 /\ rq_resps[j].status # 429
    /\ NumGets(rq_out.log) = 3

\* C5 as stated: an envelope whose `error` is present and not false makes
\* the call return None after that GET.
C5_AsStated ==
    \A k \in 1..MaxRetry + 1 :
        (Reaches(k) /\ ErrorPresentNotFalse(rq_resps[k]))
            => rq_out.result = None /\ NumGets(rq_out.log) = k

\* C5 amended: an envelope whose `error` is truthy (not false, null, 0 or
\* the empty string) makes the call return None after that GET, with no
\* further attempt.
C5_TruthyErrorNotRetried ==
    \A k \in 1..MaxRetry + 1 :
        (Reaches(k) /\ ErrorTruthy(rq_resps[k]))
            => rq_out.result = None /\ NumGets(rq_out.log) = k

\* C5 witness: the first answer is an error envelope and attempts remain
C5_Witness ==
    /\ Reaches(1) /\ retry_count = 3
    /\ ErrorTruthy(rq_resps[1])
    /\ NumGets(rq_out.log) = 1

\* C6: a 2xx answer whose body does not decode makes the call return None
\* after that GET, with no further attempt.
C6_MalformedNotRetried ==
    \A k \in 1..MaxRetry + 1 :
        (Reaches(k) /\ rq_resps[k] = MalformedResponse)
            => rq_out.result = None /\ NumGets(rq_out.log) = k

----------------------------------------------------------------------------
(* Claims about get_all_shows, under SpecShows *)

\* the artist of a record case-insensitively equals 'phish'
ArtistIsPhish(show) ==
    "artist_name" \in DOMAIN show /\ Lower(show["artist_name"]) = PhishName

\* the years of the catalog requests, in the order they were made
CatalogYears ==
    LET evs == SelectSeq(trace, LAMBDA e : e.ev = "catalog")
    IN [i \in DOMAIN evs |-> evs[i].key]

\* C2: get_all_shows returns only records whose artist_name
\* case-insensitively equals 'phish'.
C2_OnlyPhish == \A i \in DOMAIN all_shows : ArtistIsPhish(all_shows[i])

\* C2 witness: the API delivered a record of another artist, which was
\* dropped, and a record spelled otherwise than 'phish', which was kept
C2_Witness ==
    /\ pc = "returned"
    /\ \E i \in DOMAIN delivered : ~ArtistIsPhish(delivered[i])
    /\ \E i \in DOMAIN all_shows : all_shows[i]["artist_name"] # PhishName

\* C3: for start_year <= end_year, one catalog request is made for each
\* year of the range, in ascending order, whichever years failed, and the
\* result holds the shows of the years that succeeded.
C3_EveryYearFetched ==
    (pc = "returned" /\ start_year <= end_year)
        => /\ CatalogYears = [i \in 1..(end_year - start_year + 1) |-> start_year + i - 1]
           /\ all_shows = SelectSeq(delivered, ArtistIsPhish)

\* C3 witness: a year's request returned None and a later year's shows are
\* in the result
C3_Witness ==
    /\ pc = "returned"
    /\ failed_year # 0
    /\ \E i \in DOMAIN all_shows : all_shows[i]["showdate"] > failed_year

----------------------------------------------------------------------------
(* Claims about extract_all_data and the exports, under Spec *)

NothingFetched(detailed_setlist) ==
    detailed_setlist.isNone \/ Len(detailed_setlist.data) = 0

\* C4: the enrichment loop outputs one enriched show for each raw show that
\* passes the artist re-check, in the input's order; a show whose setlist
\* fetch yields nothing is included with an empty formatted setlist and an
\* empty feature bag.
C4_OneEnrichedPerShow ==
    pc # "enrich" =>
        LET passing == SelectSeq(all_shows, ArtistIsPhish)
        IN /\ Len(enriched_shows) = Len(passing)
           /\ \A i \in DOMAIN passing :
                 /\ i \in DOMAIN enriched_shows
                 /\ enriched_shows[i].date = passing[i]["showdate"]
                 /\ enriched_shows[i].artist_name = passing[i]["artist_name"]
                 /\ NothingFetched(setlists[i]) =>
                       /\ enriched_shows[i].setlist = <<>>
                       /\ enriched_shows[i].song_features = EmptyDict

\* C4 witness: two different shows, the first without setlist data, the
\* second with a song
C4_Witness ==
    /\ pc = "extracted"
    /\ Len(all_shows) = 2 /\ all_shows[1] # all_shows[2]
    /\ Len(enriched_shows) = 2
    /\ setlists[1].isNone
    /\ enriched_shows[2].setlist # <<>>

\* every song name of every feature bag built so far is in all_songs
C7_Superset ==
    \A i \in DOMAIN enriched_shows :
        LET f == enriched_shows[i].song_features
            set_info == Get(f, "set_info", EmptyDict)
        IN /\ Range(Get(f, "songs_played", <<>>)) \subseteq all_songs
           /\ \A sn \in DOMAIN set_info : Range(set_info[sn]) \subseteq all_songs

\* C7: all_songs only grows, and after every feature extraction it holds
\* every song name of every feature bag built so far.
C7_UniverseGrows == []C7_Superset /\ [][all_songs \subseteq all_songs']_vars

\* C7 witness: two shows whose bags hold different songs
C7_Witness ==
    /\ Len(enriched_shows) = 2
    /\ \E s \in all_songs :
          /\ s \in Range(Get(enriched_shows[1].song_features, "songs_played", <<>>))
          /\ s \notin Range(Get(enriched_shows[2].song_features, "songs_played", <<>>))
    /\ Get(enriched_shows[2].song_features, "songs_played", <<>>) # <<>>

\* how often a show played a song
TimesPlayed(show, song) ==
    LET songs_played == Get(show.song_features, "songs_played", <<>>)
    IN Cardinality({j \in DOMAIN songs_played : songs_played[j] = song})

\* C8: in every row of the wide export and for every song of all_songs, the
\* song's indicator column is 1 if the show played it and 0 otherwise, and
\* its _count column holds the repeat count exactly when the show played it
\* more than once.
C8_WideIndicators ==
    wide_done =>
        \A i \in DOMAIN enriched_shows : \A s \in all_songs :
            LET n == TimesPlayed(enriched_shows[i], s)
                row == wide_data[i]
            IN /\ SongColumn(s) \in DOMAIN row
               /\ row[SongColumn(s)] = IF n > 0 THEN 1 ELSE 0
               /\ IF n > 1 THEN CountColumn(s) \in DOMAIN row /\ row[CountColumn(s)] = n
                  ELSE CountColumn(s) \notin DOMAIN row

\* the rows of the long export that belong to the show at position i
RowsOfShow(i) == SelectSeq(ml_rows, LAMBDA r : r.show = i)

\* C10: in the long export every show has at least one row, and a show with
\* an empty formatted setlist has exactly one, with empty set_name and
\* song_name, song_position 0, has_segue false and empty segue_info.
C10_EveryShowHasRow ==
    ml_done =>
        \A i \in DOMAIN enriched_shows :
            /\ Len(RowsOfShow(i)) >= 1
            /\ enriched_shows[i].setlist = <<>> =>
                  /\ Len(RowsOfShow(i)) = 1
                  /\ RowsOfShow(i)[1].set_name = <<>>
                  /\ RowsOfShow(i)[1].song_name = <<>>
                  /\ RowsOfShow(i)[1].song_position = 0
                  /\ RowsOfShow(i)[1].has_segue = FALSE
                  /\ RowsOfShow(i)[1].segue_info = <<>>

----------------------------------------------------------------------------
(* Claims about clean_column_name, under SpecClean *)

run_like_an_antelope == <<"r", "u", "n", "_", "l", "i", "k", "e", "_", "a", "n", "_",
                          "a", "n", "t", "e", "l", "o", "p", "e">>
mikes_song == <<"m", "i", "k", "e", "s", "_", "s", "o", "n", "g">>
mike_s_song == <<"m", "i", "k", "e", "_", "s", "_", "s", "o", "n", "g">>

\* C9 as stated: "Run Like an Antelope" gives "run_like_an_antelope" and
\* "Mike's Song" gives "mikes_song".
C9_AsStated ==
    clean_done =>
        /\ clean_name = RunLikeAnAntelope => clean_result = run_like_an_antelope
        /\ clean_name = MikesSong => clean_result = mikes_song

\* C9 amended: "Run Like an Antelope" gives "run_like_an_antelope" and
\* "Mike's Song" gives "mike_s_song" (the apostrophe becomes an underscore).
C9_CleanVocabulary ==
    clean_done =>
        /\ clean_name = RunLikeAnAntelope => clean_result = run_like_an_antelope
        /\ clean_name = MikesSong => clean_result = mike_s_song

\* C9 witness: clean_column_name has returned for "Mike's Song"
C9_Witness == clean_done /\ clean_name = MikesSong /\ clean_result = mike_s_song

----------------------------------------------------------------------------
(* Claims about the formatter and the long-format parser, under SpecSetlist *)

\* the (set label, song name) pairs of the parsed rows
ParsedPairs == {<<sl_rows[i].set_name, sl_rows[i].song_name>> : i \in DOMAIN sl_rows}

\* the (set label, song name) pairs of the feature bag's set_info groupings
FeaturePairs ==
    UNION {{<<sn, sl_features.set_info[sn][i]>> : i \in DOMAIN sl_features.set_info[sn]}
           : sn \in DOMAIN sl_features.set_info}

\* C11: for every structured setlist, parsing the formatter's output yields
\* exactly the (set label, song name) pairs of the set_info groupings that
\* the feature extractor produces for that setlist.
C11_RoundTrip ==
    (sl_pc = "done" /\ sl_formatted) => ParsedPairs = FeaturePairs

\* s ends with suf
EndsWith(s, suf) ==
    Len(s) >= Len(suf) /\ SubSeq(s, Len(s) - Len(suf) + 1, Len(s)) = suf

\* the marker the claim reads off a token: a trailing '->', else a trailing '>'
ClaimedMarker(token) ==
    IF EndsWith(token, SegueArrow) THEN SegueArrow
    ELSE IF EndsWith(token, SegueGt) THEN SegueGt
    ELSE <<>>

\* the token with the whole marker removed
ClaimedName(token) ==
    Strip(SubSeq(token, 1, Len(token) - Len(ClaimedMarker(token))))

\* the rows the claim describes for one set: songs numbered from 1
ClaimedRowsOfSet(s) ==
    Concat([i \in DOMAIN s.tokens |->
              IF NonEmpty(ClaimedName(s.tokens[i]))
              THEN <<[set_name |-> s.label, song_position |-> i,
                      song_name |-> ClaimedName(s.tokens[i]),
                      has_segue |-> ClaimedMarker(s.tokens[i]) # <<>>,
                      segue_info |-> ClaimedMarker(s.tokens[i])]>>
              ELSE <<>>])

ClaimedRows(sets) == Concat([i \in DOMAIN sets |-> ClaimedRowsOfSet(sets[i])])

\* C12: for each song token of a set the parser reports a trailing '>' or
\* '->' as the segue marker (has_segue, and segue_info equal to that
\* marker), removes the whole marker from the song name, and numbers the
\* songs from 1 within their set.
C12_SegueParsing ==
    (sl_pc = "done" /\ ~sl_formatted) => sl_rows = ClaimedRows(sl_tokens)

----------------------------------------------------------------------------
(* Claims about the sleeps of make_request, under SpecReq *)

\* the sleep of line 66; the backoff sleeps are multiples of 2 s and 5 s
DelayEv == SleepEv(request_delay_ms)

\* the index in the log of the GET of attempt k (1-based)
GetIndex(log, k) ==
    CHOOSE i \in DOMAIN log :
        /\ log[i].ev = "get"
        /\ Cardinality({j \in 1..i : log[j].ev = "get"}) = k

\* what attempt k did after its GET, up to the next GET or the return
AfterGet(log, k) ==
    LET from == GetIndex(log, k) + 1
        to == IF k < NumGets(log) THEN GetIndex(log, k + 1) - 1 ELSE Len(log)
    IN SubSeq(log, from, to)

\* the answer passed the status checks of lines 57 and 63
PassesStatus(r) == r.status # NoResponse /\ r.status # 429 /\ r.status < 400

DelaySlept == \E i \in DOMAIN rq_out.log : rq_out.log[i] = DelayEv

\* C13 as stated: the inter-request delay is slept exactly when the call
\* returns a successful JSON body, so never on a path that ends in failure.
C13_AsStated ==
    rq_called => (DelaySlept <=> ~rq_out.result.isNone)

\* C13, amended: the inter-request delay is slept once, right after the GET,
\* on every attempt whose answer passes the status checks, and on no other
\* attempt; a successful return always has it as its last event.
C13_DelayAfterStatus ==
    rq_called =>
        /\ \A k \in 1..NumGets(rq_out.log) :
              LET after == AfterGet(rq_out.log, k)
                  delays == {i \in DOMAIN after : after[i] = DelayEv}
              IN IF PassesStatus(rq_resps[k]) THEN delays = {1} ELSE delays = {}
        /\ ~rq_out.result.isNone =>
              /\ Len(rq_out.log) > 0
              /\ rq_out.log[Len(rq_out.log)] = DelayEv

\* C13 witness: a call that ended in a semantic API error after its delay
C13_Witness ==
    /\ rq_called
    /\ rq_out.result.isNone
    /\ NumGets(rq_out.log) = 1
    /\ ErrorTruthy(rq_resps[1])
    /\ rq_out.log = <<GetEv, DelayEv>>

\* the backoff waits of an attempt: its sleeps other than the delay of line 66
Backoffs(events) == SelectSeq(events, LAMBDA e : e.ev = "sleep" /\ e # DelayEv)

\* a request-level failure other than HTTP 429
IsOtherFailure(r) == IsRequestFailure(r) /\ r.status # 429

\* attempt k waited `ms` and then the request was issued again
WaitsThenRetries(k, ms) ==
    /\ Backoffs(AfterGet(rq_out.log, k)) = <<SleepEv(ms)>>
    /\ k < NumGets(rq_out.log)

\* C14: attempt k (1-based) that receives HTTP 429 waits 5*k seconds and
\* retries, attempt k that fails with another request-level failure waits
\* 2*k seconds and retries, and an attempt waits only when a retry follows,
\* that is, only while the retry ceiling has not been reached.
C14_BackoffSchedule ==
    rq_called =>
        \A k \in 1..NumGets(rq_out.log) :
            /\ (rq_resps[k].status = 429 /\ k < retry_count)
                  => WaitsThenRetries(k, rate_limit_step_ms * k)
            /\ (IsOtherFailure(rq_resps[k]) /\ k < retry_count)
                  => WaitsThenRetries(k, failure_step_ms * k)
            /\ Backoffs(AfterGet(rq_out.log, k)) # <<>>
                  => (k < retry_count /\ k < NumGets(rq_out.log))

----------------------------------------------------------------------------
(* Claim about the batch pauses, under SpecPacing *)

InYearLoop == pc \in {"years", "returned"}

\* the batch size and the number of items of the loop that is running
PacedSize == IF InYearLoop THEN year_batch_size ELSE batch_size
PacedTotal ==
    IF InYearLoop
    THEN (IF end_year >= start_year THEN end_year - start_year + 1 ELSE 0)
    ELSE Len(all_shows)
PacedBatches == (PacedTotal + PacedSize - 1) \div PacedSize
PacedDone == pc \in {"returned", "extracted"}

IsPause(e) == e.ev = "batch_sleep"
RequestsBefore(j) == Cardinality({i \in 1..(j - 1) : ~IsPause(trace[i])})
NumPauses == Cardinality({i \in DOMAIN trace : IsPause(trace[i])})

\* C15: in get_all_shows (chunks of 5 years) and in extract_all_data
\* (batches of batch_size shows) the batch delay is slept once after each
\* batch that another batch follows, after all of its requests and before
\* any request of the next batch, and never after the last batch: a run
\* over n >= 1 batches sleeps it n - 1 times.
C15_BatchPacing ==
    /\ \A j \in DOMAIN trace :
          IsPause(trace[j]) =>
              /\ RequestsBefore(j) > 0
              /\ RequestsBefore(j) % PacedSize = 0
              /\ RequestsBefore(j) < PacedTotal
              /\ ~IsPause(trace[j - 1])
    /\ \A j \in DOMAIN trace :
          (~IsPause(trace[j]) /\ RequestsBefore(j) > 0
              /\ RequestsBefore(j) % PacedSize = 0) => IsPause(trace[j - 1])
    /\ (PacedDone /\ PacedTotal >= 1) =>
          /\ NumPauses = PacedBatches - 1
          /\ Len(trace) - NumPauses = PacedTotal

\* C15 witness: get_all_shows has returned from a range of two chunks, with
\* one pause between the fifth and the sixth request
C15_Witness ==
    /\ pc = "returned"
    /\ PacedBatches = 2
    /\ Len(trace) = PacedTotal + 1
    /\ IsPause(trace[year_batch_size + 1])

====
